---- MODULE Spec2Model ----
(***************************************************************************)
(* Conversation synthesis engine of src/src/main.py: the JSON-file backed  *)
(* conversation store, the seeder, the reseed/migration detector, the      *)
(* discussion continuer with its LLM path and deterministic fallback, and  *)
(* comment insertion.  Texts are real strings, built as the f-strings of   *)
(* the source build them.                                                  *)
(***************************************************************************)
EXTENDS Integers, Sequences, FiniteSets, TLC

(***************************************************************************)
(* Python string primitives                                                *)
(***************************************************************************)

\* Python None (a value of its own, printed "None" by an f-string)
None == "<None>"

Min(a, b) == IF a <= b THEN a ELSE b

\* s[:n]
Take(s, n) == SubSeq(s, 1, Min(n, Len(s)))

\* s[n:] with n counted from 0
Drop(s, n) == SubSeq(s, Min(n, Len(s)) + 1, Len(s))

\* str.startswith
StartsWith(s, p) == Len(p) <= Len(s) /\ SubSeq(s, 1, Len(p)) = p

\* the least / greatest position of a set of positions, 0 for none
First(hits) == IF hits = {} THEN 0 ELSE CHOOSE i \in hits : \A j \in hits : i <= j

Last(hits) == IF hits = {} THEN 0 ELSE CHOOSE i \in hits : \A j \in hits : i >= j

\* the positions at which p occurs in s
Occurrences(s, p) == {i \in 1..(Len(s) - Len(p) + 1) : SubSeq(s, i, i + Len(p) - 1) = p}

\* str.find, 1-based; 0 when p does not occur in s
Find(s, p) == First(Occurrences(s, p))

\* p in s
Contains(s, p) == Occurrences(s, p) # {}

\* the character at position i, "" past the end
Ch(s, i) == IF i >= 1 /\ i <= Len(s) THEN SubSeq(s, i, i) ELSE ""

LowerChar(c) ==
    LET i == Find("ABCDEFGHIJKLMNOPQRSTUVWXYZ", c)
    IN  IF i = 0 THEN c ELSE SubSeq("abcdefghijklmnopqrstuvwxyz", i, i)

RECURSIVE Lower(_)
\* str.lower (halving keeps the recursion shallow on long texts)
Lower(s) ==
    IF Len(s) = 0 THEN ""
    ELSE IF Len(s) = 1 THEN LowerChar(s)
    ELSE Lower(Take(s, Len(s) \div 2)) \o Lower(Drop(s, Len(s) \div 2))

RECURSIVE LStrip(_)
LStrip(s) == IF s # "" /\ SubSeq(s, 1, 1) = " " THEN LStrip(Drop(s, 1)) ELSE s

RECURSIVE RStrip(_)
RStrip(s) ==
    IF s # "" /\ SubSeq(s, Len(s), Len(s)) = " " THEN RStrip(Take(s, Len(s) - 1)) ELSE s

\* str.strip
Strip(s) == RStrip(LStrip(s))

RECURSIVE Split(_, _)
\* str.split(sep): the pieces between the occurrences of sep, empty ones kept
Split(s, sep) ==
    IF ~Contains(s, sep) THEN <<s>>
    ELSE <<Take(s, Find(s, sep) - 1)>> \o Split(Drop(s, Find(s, sep) - 1 + Len(sep)), sep)

NonEmpty(t) == t # ""

\* str.split(): the whitespace-separated words
Words(s) == SelectSeq(Split(s, " "), NonEmpty)

RECURSIVE Join(_, _)
\* sep.join(xs)
Join(xs, sep) ==
    IF xs = <<>> THEN ""
    ELSE IF Len(xs) = 1 THEN xs[1]
    ELSE Join(SubSeq(xs, 1, Len(xs) \div 2), sep) \o sep
             \o Join(SubSeq(xs, Len(xs) \div 2 + 1, Len(xs)), sep)

\* x or y, for strings
OrStr(x, y) == IF x = "" THEN y ELSE x

Digits == "0123456789"

RECURSIVE IntStr(_)
\* str(n) of a non-negative integer
IntStr(n) ==
    IF n < 10 THEN SubSeq(Digits, n + 1, n + 1)
    ELSE IntStr(n \div 10) \o SubSeq(Digits, (n % 10) + 1, (n % 10) + 1)

\* what an f-string prints for a value that may be None
Fmt(v) == IF v = None THEN "None" ELSE v

RECURSIVE Rep(_, _)
\* s * n
Rep(s, n) ==
    IF n = 0 THEN ""
    ELSE LET h == Rep(s, n \div 2) IN h \o h \o (IF n % 2 = 1 THEN s ELSE "")

(***************************************************************************)
(* Records served by the record resolver (utils/database.py)               *)
(***************************************************************************)

\* An integer column that may be NULL is <<n>> or <<>>.
\* fetch_project_manager / fetch_employee found no row
NoRecord == [absent |-> TRUE]

\* most distinct skills a manager requires
MaxRequired == 50

\* further skill names: "s01", "s02", ...
SkillName(i) == "s" \o (IF i < 10 THEN "0" ELSE "") \o IntStr(i)

\* the skill names in use, in sorted() order
SkillOrder == <<"Kafka", "Python", "SQL">> \o [i \in 1..MaxRequired |-> SkillName(i)]

RECURSIVE SortedFrom(_, _)
\* the names of order that are in S, in the order of order
SortedFrom(order, S) ==
    IF order = <<>> THEN <<>>
    ELSE IF Len(order) = 1 THEN (IF order[1] \in S THEN order ELSE <<>>)
    ELSE SortedFrom(SubSeq(order, 1, Len(order) \div 2), S)
             \o SortedFrom(SubSeq(order, Len(order) \div 2 + 1, Len(order)), S)

\* sorted(S) for a set of skill names
Sorted(S) == SortedFrom(SkillOrder, S)

Range(xs) == {xs[i] : i \in 1..Len(xs)}

PMDana ==
    [name |-> "Dana Cruz", active_project |-> "Alpha",
     required_skills |-> <<"Python", "SQL", "Kafka">>]

\* a manager whose name starts with the legacy speaker prefix
PMTech ==
    [name |-> "Tech Lead Sam", active_project |-> "Beta", required_skills |-> <<>>]

ManagerProfiles == {PMDana, PMTech}

EmpAnn ==
    [name |-> "Ann Lee", experience_years |-> <<3>>, education |-> "BS CS - Uni",
     summary |-> "Solid contributor with exactly 3 hobbies", skills |-> <<"Python", "SQL">>,
     metrics |-> <<<<"Velocity", "20">>, <<"Quality Score", "95">>>>]

EmpBob ==
    [name |-> "Bob Roy", experience_years |-> <<>>, education |-> "MS Data - MIT",
     summary |-> "Data scientist", skills |-> <<"Kafka">>, metrics |-> <<>>]

\* a row inserted with a very long name
EmpLong ==
    [name |-> "Lo " \o Rep("x", 520), experience_years |-> <<12>>, education |-> "PhD",
     summary |-> "Long", skills |-> <<>>, metrics |-> <<>>]

\* a row inserted without education (NULL column)
EmpNoEdu ==
    [name |-> "Cy Poe", experience_years |-> <<1>>, education |-> None,
     summary |-> "New hire", skills |-> <<"SQL">>, metrics |-> <<>>]

\* a row inserted without a name (NULL column)
EmpNoName ==
    [name |-> None, experience_years |-> <<2>>, education |-> "BA", summary |-> "Anon",
     skills |-> <<"Python">>, metrics |-> <<>>]

EmployeeProfiles == {EmpAnn, EmpBob, EmpLong, EmpNoEdu, EmpNoName}

\* Python truthiness of a fetched record: None and {} are falsy
Truthy(rec) == rec # NoRecord

(***************************************************************************)
(* Skill/alignment calculator                                              *)
(***************************************************************************)

_skill_overlap(required, employee_skills) ==
    [overlap |-> Sorted(Range(required) \cap Range(employee_skills)),
     gaps    |-> Sorted(Range(required) \ Range(employee_skills))]

\* the guard "... if required else {'overlap': [], 'gaps': []}" used at the call sites
OverlapInfo(required, employee_skills) ==
    IF required # <<>> THEN _skill_overlap(required, employee_skills)
    ELSE [overlap |-> <<>>, gaps |-> <<>>]

\* Python floats are IEEE-754 binary64, every result rounded to 53 significant
\* bits, ties to even.  A float is [m |-> <<lead, d1, d2, d3, d4>>, s |-> s]: the
\* digits d1..d4 are below Limb = 2^13, and the float stands for
\* (lead + d1/Limb + d2/Limb^2 + d3/Limb^3 + d4/Limb^4) / 2^s, so a lead of
\* 1 carries 1 + 4 * 13 = 53 bits
Limb == 8192

Limbs == 4

RECURSIVE Pow2(_)
Pow2(n) == IF n = 0 THEN 1 ELSE 2 * Pow2(n - 1)

RECURSIVE BitLength(_)
\* int.bit_length
BitLength(n) == IF n = 0 THEN 0 ELSE 1 + BitLength(n \div 2)

RECURSIVE Carry(_)
\* the digits with every digit after the lead brought below Limb
Carry(m) ==
    IF Len(m) = 1 THEN m
    ELSE Carry(SubSeq(m, 1, Len(m) - 2) \o <<m[Len(m) - 1] + m[Len(m)] \div Limb>>)
             \o <<m[Len(m)] % Limb>>

RECURSIVE Scale(_, _, _)
\* <<k * 2^s, s>> for the least s with k * 2^s >= n
Scale(x, n, s) == IF x >= n THEN <<x, s>> ELSE Scale(2 * x, n, s + 1)

RECURSIVE DivLimbs(_, _, _)
\* count more digits of r / n, then the remainder
DivLimbs(r, n, count) ==
    IF count = 0 THEN <<r>>
    ELSE <<(r * Limb) \div n>> \o DivLimbs((r * Limb) % n, n, count - 1)

\* digits followed by a remainder rem of n: rounded to the nearest, ties to even
RoundQuotient(q, n) ==
    LET last == q[Limbs + 1]
        rem == q[Limbs + 2]
        up == 2 * rem > n \/ (2 * rem = n /\ last % 2 = 1)
    IN  Carry([i \in 1..(Limbs + 1) |-> IF i = Limbs + 1 /\ up THEN q[i] + 1 ELSE q[i]])

\* k / n for integers 0 <= k <= n, 0 < n
TrueDiv(k, n) ==
    IF k = 0 THEN [m |-> <<0, 0, 0, 0, 0>>, s |-> 0]
    ELSE [m |-> RoundQuotient(<<1>> \o DivLimbs(Scale(k, n, 0)[1] - n, n, Limbs), n),
          s |-> Scale(k, n, 0)[2]]

\* the exact digits m cut to 53 significant bits: the lead holds BitLength(lead)
\* of them, so the last digit loses its lowest BitLength(lead) - 1 bits
RoundProduct(m) ==
    LET unit == Pow2(BitLength(m[1]) - 1)
        last == m[Limbs + 1]
        lost == last % unit
        up == 2 * lost > unit \/ (2 * lost = unit /\ (last \div unit) % 2 = 1)
    IN  IF m[1] < 2 THEN m
        ELSE Carry([i \in 1..(Limbs + 1) |->
                       IF i = Limbs + 1 THEN last - lost + (IF up THEN unit ELSE 0)
                       ELSE m[i]])

\* f * c for a float f and a natural number c below 2^17
FloatMul(f, c) == [m |-> RoundProduct(Carry([i \in 1..(Limbs + 1) |-> f.m[i] * c])), s |-> f.s]

\* int(f) for a float f >= 0
IntOf(f) == f.m[1] \div Pow2(f.s)

\* int((overlap / len(required_set)) * 100)
_compute_alignment(required, employee_skills) ==
    IF required = <<>> THEN 0
    ELSE IntOf(FloatMul(TrueDiv(Cardinality(Range(required) \cap Range(employee_skills)),
                                Cardinality(Range(required))),
                        100))

(***************************************************************************)
(* Messages, seeding, reseed detection, legacy migration                   *)
(***************************************************************************)

Msg(role, speaker, text) == [role |-> role, speaker |-> speaker, text |-> text]

\* the exception _seed_conversation raises on this pair ("" when it raises none):
\* None.split at line 504, None[:70] at line 504
SeedError(manager, employee) ==
    IF employee.education = None THEN "AttributeError"
    ELSE IF employee.summary = None THEN "TypeError"
    ELSE ""

\* the seed of the earlier deployment, with its Tech Lead participant
_seed_conversation_legacy(manager, employee) ==
    << Msg("manager", manager.name, "Reviewing " \o Fmt(employee.name) \o "."),
       Msg("lead", "Tech Lead", "Tech view: solid basics."),
       Msg("manager", manager.name, "Alignment pending.") >>

\* the four messages _seed_conversation returns when it does not raise
_seed_conversation(manager, employee) ==
    LET manager_name == manager.name
        required == manager.required_skills
        overlap_info == OverlapInfo(required, employee.skills)
        first_metric_key == IF employee.metrics # <<>> THEN employee.metrics[1][1] ELSE "Metric"
        first_metric_val == IF employee.metrics # <<>> THEN employee.metrics[1][2] ELSE "N/A"
        experience_years ==
            IF employee.experience_years = <<>> THEN 0 ELSE employee.experience_years[1]
        overlap_txt ==
            IF required # <<>>
            THEN "Overlap: " \o Join(overlap_info.overlap, ", ") \o ". Gaps: "
                     \o OrStr(Join(overlap_info.gaps, ", "), "None")
            ELSE "No explicit required skills listed yet."
        intro == "Reviewing " \o Fmt(employee.name) \o " for project '"
                     \o Fmt(manager.active_project) \o "': " \o IntStr(experience_years)
                     \o " yrs experience; " \o first_metric_key \o "=" \o first_metric_val \o "."
        alignment_pct == IF required # <<>> THEN _compute_alignment(required, employee.skills) ELSE 0
        project_eval ==
            "Project needs: "
                \o (IF required # <<>> THEN Join(Take(required, 4), ", ") ELSE "TBD")
                \o ". Alignment " \o IntStr(alignment_pct) \o "%. " \o overlap_txt
        hr_view == "HR perspective: " \o Fmt(employee.name) \o " shows strong background in "
                     \o Split(employee.education, " - ")[1] \o "; summary: "
                     \o Take(employee.summary, 70) \o "..."
        next_step == "Considering task alignment leveraging "
                     \o Split(employee.education, " - ")[1] \o " and strengths in "
                     \o Join(Take(employee.skills, 2), ", ") \o "."
    IN  << Msg("manager", manager_name, intro),
           Msg("manager", manager_name, project_eval),
           Msg("hr", "HR Representative", hr_view),
           Msg("manager", manager_name, next_step) >>

\* the handlers' "try: _seed_conversation ... except Exception as e:" with the
\* one-message substitute naming type(e).__name__
SeedOrFallback(manager, employee) ==
    IF SeedError(manager, employee) = "" THEN _seed_conversation(manager, employee)
    ELSE << Msg("manager", manager.name,
                "Conversation seed unavailable due to data error: "
                    \o SeedError(manager, employee) \o ".") >>

\* (m.get('speaker') or '').lower().startswith('tech lead') or role in ('lead','techlead')
\* lower() changes no length, so only the first 9 characters decide startswith
IsLegacy(m) ==
    \/ Lower(Take(IF m.speaker = None THEN "" ELSE m.speaker, Len("tech lead"))) = "tech lead"
    \/ m.role \in {"lead", "techlead"}

_conversation_needs_reseed(manager, employee, messages) ==
    IF ~Truthy(manager) \/ ~Truthy(employee) \/ messages = <<>> THEN FALSE
    ELSE IF employee.name = None \/ employee.name = "" THEN FALSE
    ELSE IF ~Contains(messages[1].text, "Reviewing " \o employee.name) THEN TRUE
    ELSE \E i \in 1..Len(messages) : IsLegacy(messages[i])

\* a migration that renames the speaker and keeps the role
_migrate_legacy_roles_keeping_role(messages) ==
    [i \in 1..Len(messages) |->
        IF IsLegacy(messages[i]) THEN [messages[i] EXCEPT !.speaker = "HR Representative"]
        ELSE messages[i]]

\* the migration that deletes the legacy messages
_migrate_legacy_roles_dropping(messages) ==
    SelectSeq(messages, LAMBDA m : ~IsLegacy(m))

\* the migration that goes by the role alone
_migrate_legacy_roles_by_role(messages) ==
    [i \in 1..Len(messages) |->
        IF messages[i].role \in {"lead", "techlead"}
        THEN [messages[i] EXCEPT !.role = "hr", !.speaker = "HR Representative"]
        ELSE messages[i]]

_migrate_legacy_roles(messages) ==
    [i \in 1..Len(messages) |->
        IF IsLegacy(messages[i])
        THEN [messages[i] EXCEPT !.role = "hr", !.speaker = "HR Representative"]
        ELSE messages[i]]

(***************************************************************************)
(* Direct-project-question classifier, fact extractor, heuristic responder *)
(***************************************************************************)

_is_direct_project_question(comment) ==
    LET c == Strip(Lower(comment))
    IN  IF c = "" THEN FALSE
        ELSE \/ StartsWith(c, "what project")
             \/ Contains(c, "currently leading")
             \/ (Contains(c, "leading") /\ Contains(c, "project"))

IsDigit(c) == c # "" /\ Contains(Digits, c)

\* \s+(?:different\s+)?(?:hobbies|personal interests|activities) matches a prefix of t
HobbyTail(t) ==
    LET u == LStrip(t)
        v == LStrip(Drop(u, Len("different")))
        Noun(w) == \/ StartsWith(w, "hobbies")
                   \/ StartsWith(w, "personal interests")
                   \/ StartsWith(w, "activities")
    IN  /\ Len(u) < Len(t)
        /\ \/ Noun(u)
           \/ /\ StartsWith(u, "different")
              /\ Len(v) < Len(Drop(u, Len("different")))
              /\ Noun(v)

\* the number of digits (2, 1, or 0 for no match) that (\d{1,2}) takes at position i
HobbyDigitsAt(text, i) ==
    IF /\ IsDigit(Ch(text, i)) /\ IsDigit(Ch(text, i + 1))
       /\ HobbyTail(Drop(text, i + 1))
    THEN 2
    ELSE IF IsDigit(Ch(text, i)) /\ HobbyTail(Drop(text, i)) THEN 1
    ELSE 0

\* hobbies_count of _extract_employee_facts: <<n>>, or <<>> for None
_extract_employee_facts(employee) ==
    LET text == Lower(IF employee.summary = None THEN "" ELSE employee.summary)
        hits == {i \in 1..Len(text) : HobbyDigitsAt(text, i) > 0}
        i0   == CHOOSE i \in hits : \A j \in hits : i <= j
        DigitVal(c) == Find(Digits, c) - 1
    IN  IF hits = {} THEN <<>>
        ELSE IF HobbyDigitsAt(text, i0) = 2
             THEN << DigitVal(SubSeq(text, i0, i0)) * 10 + DigitVal(SubSeq(text, i0 + 1, i0 + 1)) >>
             ELSE << DigitVal(SubSeq(text, i0, i0)) >>

\* the exception _enhanced_answer_teamlead raises at line 623 ("" when none):
\* None.split() or "".split()[0]
AnswerError(employee) ==
    IF employee.name = None THEN "AttributeError"
    ELSE IF Words(employee.name) = <<>> THEN "IndexError"
    ELSE ""

\* lines 624-630 on text = comment.lower(), the first name, the project and the facts
AnswerWith(text, name, project, overlap_info, facts) ==
    IF Contains(text, "hobbies") /\ facts # <<>> /\ facts # <<0>>
    THEN "Hobby context: " \o name \o " has " \o IntStr(facts[1])
             \o " hobbies; maintaining balance while addressing "
             \o OrStr(Join(Take(overlap_info.gaps, 1), ", "), "no immediate gaps") \o "."
    ELSE "Fallback: " \o name \o " overlap "
             \o OrStr(Join(Take(overlap_info.overlap, 2), ", "), "None")
             \o "; gaps " \o OrStr(Join(Take(overlap_info.gaps, 2), ", "), "None")
             \o " for " \o project \o "."

_enhanced_answer_teamlead(comment, employee, manager, overlap_info) ==
    AnswerWith(Lower(comment), Words(employee.name)[1], Fmt(manager.active_project),
               overlap_info, _extract_employee_facts(employee))

(***************************************************************************)
(* Deterministic fallback of continue_conversation (lines 604-616)         *)
(***************************************************************************)

\* a pending comment that is the latest team-lead message wherever it stands
PendingCommentLatest(conv) ==
    IF \E i \in 1..Len(conv) : conv[i].role = "teamlead"
    THEN conv[Last({i \in 1..Len(conv) : conv[i].role = "teamlead"})].text
    ELSE None

\* pending_comment: the last message's text if its role is teamlead, else None
PendingComment(conv) ==
    IF conv # <<>> /\ conv[Len(conv)].role = "teamlead" THEN conv[Len(conv)].text ELSE None

\* "if pending_comment:"
HasPending(pending) == pending # None /\ pending # ""

\* the exception the fallback branch raises ("" when none)
FallbackError(pm, emp, pending) ==
    IF HasPending(pending) /\ ~_is_direct_project_question(pending)
    THEN AnswerError(emp) ELSE ""

\* lines 604-616 on the overlap and alignment computed at lines 586-589
FallbackWith(pm, emp, pending, overlap_info, alignment_pct) ==
    IF HasPending(pending)
    THEN IF _is_direct_project_question(pending)
         THEN << Msg("manager", pm.name,
                     Take("Leading project: " \o Fmt(pm.active_project)
                              \o " - focusing delivery milestones.", 300)),
                 Msg("hr", "HR Representative",
                     Take("HR: Confirmed " \o Fmt(emp.name) \o " supports "
                              \o Fmt(pm.active_project)
                              \o " with retention & development focus.", 300)) >>
         ELSE << Msg("manager", pm.name,
                     Fmt(emp.name) \o " alignment " \o IntStr(alignment_pct)
                         \o "%. Overlap: " \o OrStr(Join(overlap_info.overlap, ", "), "None")
                         \o "; gaps: " \o OrStr(Join(Take(overlap_info.gaps, 2), ", "), "None")
                         \o ". Comment: '" \o Take(pending, 60) \o "...'"),
                 Msg("hr", "HR Representative",
                     _enhanced_answer_teamlead(pending, emp, pm, overlap_info)) >>
    ELSE << Msg("manager", pm.name,
                "Next assessment: alignment " \o IntStr(alignment_pct) \o "%. Leverage "
                    \o OrStr(Join(Take(overlap_info.overlap, 2), ", "), "existing strengths")
                    \o "; address "
                    \o OrStr(Join(Take(overlap_info.gaps, 1), ", "), "no major gaps") \o "."),
            Msg("hr", "HR Representative",
                "HR view: maintain engagement and start targeted training for remaining gap areas.") >>

\* the two messages the fallback branch appends
FallbackMessages(pm, emp, pending) ==
    FallbackWith(pm, emp, pending, OverlapInfo(pm.required_skills, emp.skills),
                 IF pm.required_skills # <<>>
                 THEN _compute_alignment(pm.required_skills, emp.skills) ELSE 0)

(***************************************************************************)
(* json.loads on the text the generator returned                           *)
(***************************************************************************)

Quote == "\""

JFail == [ok |-> FALSE, v |-> [t |-> "null"], next |-> 0]

JOk(v, next) == [ok |-> TRUE, v |-> v, next |-> next]

RECURSIVE SkipWs(_, _)
SkipWs(s, i) == IF Ch(s, i) = " " THEN SkipWs(s, i + 1) ELSE i

RECURSIVE SkipDigits(_, _)
SkipDigits(s, i) == IF IsDigit(Ch(s, i)) THEN SkipDigits(s, i + 1) ELSE i

\* a JSON string starting at the quote at i (escapes are not modelled)
ParseString(s, i) ==
    LET close == Find(Drop(s, i), Quote)
    IN  IF Ch(s, i) # Quote \/ close = 0 THEN JFail
        ELSE JOk([t |-> "str", s |-> SubSeq(s, i + 1, i + close - 1)], i + close + 1)

RECURSIVE ParseValue(_, _)
RECURSIVE ParseMembers(_, _, _)
RECURSIVE ParseItems(_, _, _)

\* the members of an object from position i on, acc the pairs read so far
ParseMembers(s, i, acc) ==
    LET k == ParseString(s, SkipWs(s, i))
        colon == SkipWs(s, k.next)
        val == ParseValue(s, colon + 1)
        after == SkipWs(s, val.next)
        pairs == Append(acc, <<k.v.s, val.v>>)
    IN  IF ~k.ok \/ Ch(s, colon) # ":" THEN JFail
        ELSE IF ~val.ok THEN JFail
        ELSE IF Ch(s, after) = "," THEN ParseMembers(s, after + 1, pairs)
        ELSE IF Ch(s, after) = "}" THEN JOk([t |-> "obj", kv |-> pairs], after + 1)
        ELSE JFail

\* the elements of an array from position i on, acc the values read so far
ParseItems(s, i, acc) ==
    LET val == ParseValue(s, i)
        after == SkipWs(s, val.next)
        items == Append(acc, val.v)
    IN  IF ~val.ok THEN JFail
        ELSE IF Ch(s, after) = "," THEN ParseItems(s, after + 1, items)
        ELSE IF Ch(s, after) = "]" THEN JOk([t |-> "arr", items |-> items], after + 1)
        ELSE JFail

ParseValue(s, i0) ==
    LET i == SkipWs(s, i0)
        c == Ch(s, i)
    IN  IF c = "{"
        THEN IF Ch(s, SkipWs(s, i + 1)) = "}"
             THEN JOk([t |-> "obj", kv |-> <<>>], SkipWs(s, i + 1) + 1)
             ELSE ParseMembers(s, i + 1, <<>>)
        ELSE IF c = "["
        THEN IF Ch(s, SkipWs(s, i + 1)) = "]"
             THEN JOk([t |-> "arr", items |-> <<>>], SkipWs(s, i + 1) + 1)
             ELSE ParseItems(s, i + 1, <<>>)
        ELSE IF c = Quote THEN ParseString(s, i)
        ELSE IF SubSeq(s, i, Min(i + 3, Len(s))) = "null" THEN JOk([t |-> "null"], i + 4)
        ELSE IF IsDigit(c) THEN JOk([t |-> "num", s |-> SubSeq(s, i, SkipDigits(s, i) - 1)], SkipDigits(s, i))
        ELSE JFail

\* json.loads(s): the value, or a failure (JSONDecodeError, also on extra data)
JsonLoads(s) ==
    LET r == ParseValue(s, 1)
    IN  IF r.ok /\ SkipWs(s, r.next) = Len(s) + 1 THEN r ELSE JFail

\* dict.get(key, default) on a parsed object: the last pair with that key wins
JGet(obj, key, default) ==
    IF \A i \in 1..Len(obj.kv) : obj.kv[i][1] # key THEN default
    ELSE obj.kv[Last({i \in 1..Len(obj.kv) : obj.kv[i][1] = key})][2]

(***************************************************************************)
(* The generator path                                                      *)
(***************************************************************************)

\* what get_completion did: raised, or returned this text
Raised == [raised |-> TRUE, raw |-> ""]

Returned(raw) == [raised |-> FALSE, raw |-> raw]

\* raw.find('{') of _llm_generate_json
SnippetStart(raw) == Find(raw, "{")

\* json.loads(snippet) for the snippet from the first "{" to the last "}"
LoadSnippet(raw, start, end) ==
    IF start # 0 /\ end # 0 /\ end > start THEN JsonLoads(SubSeq(raw, start, end)) ELSE JFail

\* the parsed JSON of _llm_generate_json, or JFail for its None
_llm_generate_json(client, completion) ==
    IF ~client \/ completion.raised THEN JFail
    ELSE LoadSnippet(completion.raw, SnippetStart(completion.raw), Last(Occurrences(completion.raw, "}")))

\* the role _llm_generate_discussion_messages gives an entry (line 286)
NormalizeRole(role) ==
    IF role \in {"manager", "pm", "project_manager"} THEN "manager"
    ELSE IF role \in {"hr", "human_resources", "tech_lead", "techlead", "lead"} THEN "hr"
    ELSE "manager"

\* Python truthiness of a parsed JSON value
JTruthy(v) ==
    IF v.t = "str" THEN v.s # ""
    ELSE IF v.t = "num" THEN v.s # "0"
    ELSE IF v.t = "arr" THEN v.items # <<>>
    ELSE IF v.t = "obj" THEN v.kv # <<>>
    ELSE FALSE

StripAll(parts) == [i \in 1..Len(parts) |-> Strip(parts[i])]

\* [s.strip() for s in text.split('.') if s.strip()]
Sentences(text) == SelectSeq(StripAll(Split(text, ".")), NonEmpty)

\* the first sentence whose lower() names the project or holds 'project', else the first
TargetSentence(sentences, lowered, project) ==
    IF \A i \in 1..Len(sentences) : ~Contains(lowered[i], project) /\ ~Contains(lowered[i], "project")
    THEN sentences[1]
    ELSE sentences[First({i \in 1..Len(sentences) :
                             Contains(lowered[i], project) \/ Contains(lowered[i], "project")})]

LowerAll(parts) == [i \in 1..Len(parts) |-> Lower(parts[i])]

\* lines 291-296 on the sentences of text
CompressSentences(sentences, text, pm) ==
    IF sentences = <<>> THEN text
    ELSE Take(TargetSentence(sentences, LowerAll(sentences), Lower(pm.active_project)), 220)

\* lines 290-296: the first sentence naming the project (or the first sentence), cut at 220
CompressToSentence(text, pm) == CompressSentences(Sentences(text), text, pm)

\* lines 287-299 on the role and the stripped text of an entry
CleanText(role, text0, pm, pending) ==
    IF /\ HasPending(pending) /\ _is_direct_project_question(pending)
       /\ pm.active_project = None /\ Sentences(text0) # <<>>
    THEN [err |-> "AttributeError", out |-> <<>>]
    ELSE IF text0 = "" THEN [err |-> "", out |-> <<>>]
    ELSE [err |-> "",
          out |-> << Msg(role, IF role = "manager" THEN pm.name ELSE "HR Representative",
                         Take(IF HasPending(pending) /\ _is_direct_project_question(pending)
                              THEN CompressToSentence(text0, pm) ELSE text0, 500)) >>]

\* lines 285-299 on the values msg.get('role','manager') and msg.get('text')
CleanFields(roleV, textV, pm, pending) ==
    IF roleV.t # "str" THEN [err |-> "AttributeError", out |-> <<>>]
    ELSE IF JTruthy(textV) /\ textV.t # "str" THEN [err |-> "AttributeError", out |-> <<>>]
    ELSE CleanText(NormalizeRole(Lower(roleV.s)),
                   IF JTruthy(textV) THEN Strip(textV.s) ELSE "", pm, pending)

\* one pass of the loop at lines 284-299 over entry msg:
\* [err |-> exception name or "", out |-> the cleaned entries it appends]
CleanEntry(msg, pm, pending) ==
    IF msg.t # "obj" THEN [err |-> "AttributeError", out |-> <<>>]
    ELSE CleanFields(JGet(msg, "role", [t |-> "str", s |-> "manager"]),
                     JGet(msg, "text", [t |-> "str", s |-> ""]), pm, pending)

CleanAll(items, pm, pending) == [i \in 1..Len(items) |-> CleanEntry(items[i], pm, pending)]

RECURSIVE Flatten(_)
Flatten(c) == IF c = <<>> THEN <<>> ELSE Head(c).out \o Flatten(Tail(c))

\* the outcome of the loop: the first exception, else the cleaned list if it has 2 entries
Collect(c) ==
    IF \E i \in 1..Len(c) : c[i].err # ""
    THEN [err |-> c[First({i \in 1..Len(c) : c[i].err # ""})].err, msgs |-> <<>>]
    ELSE IF Len(Flatten(c)) = 2 THEN [err |-> "", msgs |-> Flatten(c)]
    ELSE [err |-> "", msgs |-> <<>>]

\* "if isinstance(result, list): ... for msg in result[:2]"
Discuss(result, pm, pending) ==
    IF result.ok /\ result.v.t = "arr" THEN Collect(CleanAll(Take(result.v.items, 2), pm, pending))
    ELSE [err |-> "", msgs |-> <<>>]

\* _llm_generate_discussion_messages:
\* [err |-> exception it lets escape or "", msgs |-> the 2 cleaned entries, <<>> for None]
_llm_generate_discussion_messages(client, pm, emp, pending, completion) ==
    IF ~client THEN [err |-> "", msgs |-> <<>>]
    ELSE Discuss(_llm_generate_json(client, completion), pm, pending)

(***************************************************************************)
(* State                                                                   *)
(***************************************************************************)

VARIABLES
    managers,    \* project_managers table: id -> record or NoRecord
    employees,   \* employees table: id -> record or NoRecord
    file,        \* CONVERSATION_FILE: [state, data]
    client,      \* the global LLM client is set (not None)
    origin,      \* how the store began: "empty" or "stale"
    result,      \* the response of the last request
    lock,        \* _conv_lock: 0 when free, else the thread holding it
    threads,     \* the position and locals of each thread serving a request
    written      \* the mappings the file has held completely so far

vars == <<managers, employees, file, client, origin, result, lock, threads, written>>

\* longest conversation the model lets a request build
MaxMsgs == 7

\* most team-lead comments the model lets one conversation hold
MaxTeamLead == 2

TeamLeadCount(conv) == Cardinality({i \in 1..Len(conv) : conv[i].role = "teamlead"})

\* ids a request may name: one manager id, two employee ids
ManagerIds == {1}

EmployeeIds == {1, 2}

_conversation_key(manager_id, employee_id) ==
    "pm" \o IntStr(manager_id) \o "-emp" \o IntStr(employee_id)

EmptyMap == [k \in {} |-> <<>>]

Put(map, key, conv) == [k \in (DOMAIN map) \cup {key} |-> IF k = key THEN conv ELSE map[k]]

MissingFile == [state |-> "missing", data |-> EmptyMap]

\* the file as json.dump of a whole mapping leaves it
Written(map) == [state |-> "ok", data |-> map]

\* a file json.load cannot parse: the beginning of a dump of map, cut short
Corrupted(map) == [state |-> "partial", data |-> map]

\* a load that takes whatever the file holds for a mapping
_load_conversations_unguarded(f) == f.data

\* the mapping _load_conversations returns: {} for a missing or unparsable file
_load_conversations(f) == IF f.state = "ok" THEN f.data ELSE EmptyMap

\* the file after _load_conversations: a missing file is created holding {}
FileAfterLoad(f) == IF f.state = "missing" THEN Written(EmptyMap) ELSE f

\* a save that updates what the file holds, keeping the keys it is not given
_save_conversations_onto_file(data) ==
    Written([k \in (DOMAIN data) \cup (DOMAIN file.data) |->
                IF k \in DOMAIN data THEN data[k] ELSE file.data[k]])

\* the file after _save_conversations(data) ran undisturbed
_save_conversations(data) == Written(data)

\* the persisted mapping as a reader sees it
Store == _load_conversations(file)

\* a conversation file left by an earlier deployment: the thread of manager 1
\* and employee 1 was seeded for another employee record and still carries the
\* Tech Lead participant; the thread of a manager 2, whom no request names,
\* is there too
StaleMap ==
    LET old == _seed_conversation(PMDana, EmpBob)
        legacy == [old EXCEPT ![3] = Msg("lead", "Tech Lead", "Tech view: solid basics.")]
    IN  Put(Put(EmptyMap, _conversation_key(1, 1), legacy),
            _conversation_key(2, 1), _seed_conversation(PMTech, EmpBob))

\* comment texts a caller may send
Comments ==
    { "What project are you currently leading?",
      " Any hobbies? " \o Rep("y", 600) \o " ", "   " }

TwoEntries ==
    "[{\"role\":\"pm\",\"speaker\":\"PM\",\"text\":\"Velocity is fine.\"},"
        \o "{\"role\":\"lead\",\"speaker\":\"x\",\"text\":\"Plan training.\"}]"

\* the generator's answer holding the two entries asked for
WrappedEntries == Returned("Here you go: " \o TwoEntries \o " Hope this helps.")

\* what the generator may do on a call: raise, answer in prose, return the
\* two entries asked for, return one entry, return entries of the wrong shape
Completions ==
    { Raised,
      Returned("I cannot help with that."),
      WrappedEntries,
      Returned("[{\"role\":\"hr\",\"text\":\"Only one.\"}]"),
      Returned("[\"just text\",{\"role\":null,\"text\":\"x\"}]") }

NoCompletion == Returned("")

\* the response of a request; had: the key was in the store when the request
\* came in, and prev: <<the conversation it held>>; changed: the request changed
\* the persisted mapping, others: it left all other keys alone; text: the text
\* of a comment request; for a continue request also base: the conversation the
\* 2 messages were appended to, reseed: what the auto-reseed did, pending: the
\* comment answered
Response(op, m, e, status, conv, before, after) ==
    [op |-> op, m |-> m, e |-> e, status |-> status, conv |-> conv,
     had |-> _conversation_key(m, e) \in DOMAIN before,
     prev |-> IF _conversation_key(m, e) \in DOMAIN before
              THEN <<before[_conversation_key(m, e)]>> ELSE <<>>,
     changed |-> _load_conversations(after) # before,
     others |-> /\ (DOMAIN before) \ {_conversation_key(m, e)}
                        = (DOMAIN _load_conversations(after)) \ {_conversation_key(m, e)}
                /\ \A k \in (DOMAIN before) \ {_conversation_key(m, e)} :
                       _load_conversations(after)[k] = before[k],
     text |-> "",
     reseed |-> "none", base |-> <<>>, pending |-> None, completion |-> NoCompletion,
     client |-> FALSE, usedLLM |-> FALSE]

\* threads that may serve requests at the same time
NumThreads == 2

Threads == 1..NumThreads

\* a thread serving no request yet
Idle == [pc |-> "idle", op |-> "none", e |-> 0, got |-> EmptyMap, data |-> EmptyMap,
         failed |-> FALSE, turn |-> 0]

\* the file a deployment starts with: none, one left by an earlier deployment,
\* or one whose last dump was cut short
FileAt(o) ==
    IF o = "empty" THEN MissingFile
    ELSE IF o = "stale" THEN Written(StaleMap)
    ELSE Corrupted(StaleMap)

\* the tables the requests run against and how the store began: manager 1
\* with employee 1; employee 2 does not resolve
Cases ==
    { <<PMDana, EmpAnn, "empty">>, <<PMDana, EmpLong, "empty">>, <<PMDana, EmpNoEdu, "empty">>,
      <<PMDana, EmpNoName, "empty">>, <<PMTech, EmpAnn, "empty">>, <<NoRecord, EmpAnn, "empty">>,
      <<PMDana, EmpAnn, "stale">>, <<PMDana, EmpBob, "stale">>, <<NoRecord, EmpAnn, "stale">>,
      <<PMDana, EmpAnn, "corrupt">> }

Init ==
    /\ \E c \in Cases :
           /\ managers = [i \in ManagerIds |-> c[1]]
           /\ employees = [i \in EmployeeIds |-> IF i = 1 THEN c[2] ELSE NoRecord]
           /\ origin = c[3]
    /\ file = FileAt(origin)
    /\ client = FALSE
    /\ result = Response("none", 0, 0, "ok", <<>>, _load_conversations(file), file)
    /\ lock = 0
    /\ threads = [t \in Threads |-> Idle]
    /\ written = {_load_conversations(file)}

(***************************************************************************)
(* The pure helpers, tabulated once over the records, comments and         *)
(* completions the model draws                                             *)
(***************************************************************************)

\* the texts a team-lead message can hold, and None for no pending comment
Pendings == {None} \cup ({Take(Strip(t), 500) : t \in Comments} \ {""})

SeedCache == [mp \in ManagerProfiles, ep \in EmployeeProfiles |-> SeedOrFallback(mp, ep)]

Seeded(manager, employee) == SeedCache[manager, employee]

FallbackCache ==
    [pm \in ManagerProfiles, emp \in EmployeeProfiles, pending \in Pendings |->
        IF FallbackError(pm, emp, pending) # ""
        THEN [err |-> FallbackError(pm, emp, pending), add |-> <<>>]
        ELSE [err |-> "", add |-> FallbackMessages(pm, emp, pending)]]

\* the fallback branch: [err |-> exception that escapes or "", add |-> its 2 messages]
Fallback(pm, emp, pending) == FallbackCache[pm, emp, pending]

GeneratedCache ==
    [pm \in ManagerProfiles, emp \in EmployeeProfiles, pending \in Pendings,
     completion \in Completions |->
        _llm_generate_discussion_messages(TRUE, pm, emp, pending, completion)]

\* _llm_generate_discussion_messages(...) if client else None
Generated(cl, pm, emp, pending, completion) ==
    IF ~cl THEN [err |-> "", msgs |-> <<>>]
    ELSE GeneratedCache[pm, emp, pending, completion]

(***************************************************************************)
(* Request handlers                                                        *)
(***************************************************************************)

\* a read that migrates the legacy roles of the conversation it finds and saves it
get_conversation_migrating(m, e) ==
    LET convs == _load_conversations(file)
        key == _conversation_key(m, e)
    IN  /\ IF key \notin DOMAIN convs
           THEN IF ~Truthy(managers[m]) \/ ~Truthy(employees[e])
                THEN /\ file' = FileAfterLoad(file)
                     /\ result' = Response("get", m, e, "InvalidReference", <<>>, convs, file')
                ELSE /\ file' = _save_conversations(Put(convs, key, Seeded(managers[m], employees[e])))
                     /\ result' = Response("get", m, e, "ok", Seeded(managers[m], employees[e]),
                                           convs, file')
           ELSE /\ file' = _save_conversations(Put(convs, key, _migrate_legacy_roles(convs[key])))
                /\ result' = Response("get", m, e, "ok", _migrate_legacy_roles(convs[key]),
                                      convs, file')
        /\ UNCHANGED <<managers, employees, client, origin, lock, threads, written>>

\* a read that seeds an absent conversation and returns it without saving it
get_conversation_unsaved(m, e) ==
    LET convs == _load_conversations(file)
        key == _conversation_key(m, e)
    IN  /\ file' = FileAfterLoad(file)
        /\ IF key \notin DOMAIN convs
           THEN IF ~Truthy(managers[m]) \/ ~Truthy(employees[e])
                THEN result' = Response("get", m, e, "InvalidReference", <<>>, convs, file')
                ELSE result' = Response("get", m, e, "ok", Seeded(managers[m], employees[e]),
                                        convs, file')
           ELSE result' = Response("get", m, e, "ok", convs[key], convs, file')
        /\ UNCHANGED <<managers, employees, client, origin, lock, threads, written>>

\* GET /api/conversation
get_conversation(m, e) ==
    LET convs == _load_conversations(file)
        key == _conversation_key(m, e)
        manager == managers[m]
        employee == employees[e]
        seeded == Seeded(manager, employee)
    IN  /\ IF key \notin DOMAIN convs
           THEN IF ~Truthy(manager) \/ ~Truthy(employee)
                THEN /\ file' = FileAfterLoad(file)
                     /\ result' = Response("get", m, e, "InvalidReference", <<>>, convs, file')
                ELSE /\ file' = _save_conversations(Put(convs, key, seeded))
                     /\ result' = Response("get", m, e, "ok", seeded, convs, file')
           ELSE /\ file' = FileAfterLoad(file)
                /\ result' = Response("get", m, e, "ok", convs[key], convs, file')
        /\ UNCHANGED <<managers, employees, client, origin, lock, threads, written>>

\* lines 567-576 on the migrated list: reseed when still mismatched; an
\* exception of the reseed is swallowed and the migrated list stays
ReseedMigrated(pm, emp, migrated) ==
    IF _conversation_needs_reseed(pm, emp, migrated)
    THEN IF SeedError(pm, emp) = ""
         THEN [reseed |-> "done", conv |-> Seeded(pm, emp)]
         ELSE [reseed |-> "failed", conv |-> migrated]
    ELSE [reseed |-> "none", conv |-> migrated]

\* lines 565-576: migrate in place, then reseed
ReseedOnContinue(pm, emp, msgs) == ReseedMigrated(pm, emp, _migrate_legacy_roles(msgs))

\* lines 590-616 on the generator's outcome llm
StepWith(pm, emp, pending, llm) ==
    IF llm.err # "" THEN [err |-> llm.err, add |-> <<>>, usedLLM |-> FALSE]
    ELSE IF llm.msgs # <<>> THEN [err |-> "", add |-> llm.msgs, usedLLM |-> TRUE]
    ELSE [err |-> Fallback(pm, emp, pending).err, add |-> Fallback(pm, emp, pending).add,
          usedLLM |-> FALSE]

\* lines 577-616 on the conversation conv of resolved or unresolved records:
\* [err |-> exception that escapes or "", add |-> the 2 messages appended, usedLLM]
ContinuationStep(cl, pm, emp, conv, completion) ==
    IF ~Truthy(pm) \/ ~Truthy(emp)
    THEN [err |-> "AttributeError", add |-> <<>>, usedLLM |-> FALSE]
    ELSE StepWith(pm, emp, PendingComment(conv),
                  Generated(cl, pm, emp, PendingComment(conv), completion))

\* the response of a continue request, with what the request went through
ContinueResponse(r, prep, step, completion) ==
    [r EXCEPT !.reseed = prep.reseed, !.base = prep.conv, !.pending = PendingComment(prep.conv),
              !.completion = completion, !.client = client, !.usedLLM = step.usedLLM]

\* lines 617-618 and the exception exit, after the step on the prepared conversation
ContinueStepped(m, e, completion, convs, prep, step) ==
    IF step.err # ""
    THEN /\ file' = FileAfterLoad(file)
         /\ result' = ContinueResponse(
                          Response("continue", m, e, "exception", <<>>, convs, file'),
                          prep, step, completion)
    ELSE /\ Len(prep.conv \o step.add) <= MaxMsgs
         /\ file' = _save_conversations(Put(convs, _conversation_key(m, e), prep.conv \o step.add))
         /\ result' = ContinueResponse(
                          Response("continue", m, e, "ok", prep.conv \o step.add, convs, file'),
                          prep, step, completion)

\* lines 577-618 on the conversation prepared by lines 556-576
ContinuePrepared(m, e, completion, convs, prep) ==
    ContinueStepped(m, e, completion, convs, prep,
                    ContinuationStep(client, managers[m], employees[e], prep.conv, completion))

\* lines 556-618 on the loaded mapping
ContinueLoaded(m, e, completion, convs, pm, emp) ==
    IF _conversation_key(m, e) \notin DOMAIN convs
    THEN IF ~Truthy(pm) \/ ~Truthy(emp)
         THEN /\ file' = FileAfterLoad(file)
              /\ result' = Response("continue", m, e, "InvalidReference", <<>>, convs, file')
         ELSE ContinuePrepared(m, e, completion, convs,
                               [reseed |-> "none", conv |-> Seeded(pm, emp)])
    ELSE ContinuePrepared(m, e, completion, convs,
                          ReseedOnContinue(pm, emp, convs[_conversation_key(m, e)]))

\* POST /api/conversation/continue
continue_conversation(m, e, completion) ==
    /\ ContinueLoaded(m, e, completion, _load_conversations(file), managers[m], employees[e])
    /\ UNCHANGED <<managers, employees, client, origin, lock, threads, written>>

\* a new-conversation request that seeds only when the key holds nothing yet
new_conversation_keeping(m, e) ==
    LET convs == _load_conversations(file)
        key == _conversation_key(m, e)
        kept == IF key \in DOMAIN convs THEN convs[key] ELSE Seeded(managers[m], employees[e])
    IN  /\ IF ~Truthy(managers[m]) \/ ~Truthy(employees[e])
           THEN /\ file' = file
                /\ result' = Response("new", m, e, "InvalidReference", <<>>, Store, file')
           ELSE /\ file' = _save_conversations(Put(convs, key, kept))
                /\ result' = Response("new", m, e, "ok", kept, convs, file')
        /\ UNCHANGED <<managers, employees, client, origin, lock, threads, written>>

\* POST /api/conversation/new
new_conversation(m, e) ==
    LET manager == managers[m]
        employee == employees[e]
        convs == _load_conversations(file)
        key == _conversation_key(m, e)
        seeded == Seeded(manager, employee)
    IN  /\ IF ~Truthy(manager) \/ ~Truthy(employee)
           THEN /\ file' = file
                /\ result' = Response("new", m, e, "InvalidReference", <<>>, Store, file')
           ELSE /\ file' = _save_conversations(Put(convs, key, seeded))
                /\ result' = Response("new", m, e, "ok", seeded, convs, file')
        /\ UNCHANGED <<managers, employees, client, origin, lock, threads, written>>

\* lines 693-707: the lazy seed of add_comment; its substitute message names no error kind
LazySeed(manager, employee) ==
    IF SeedError(manager, employee) = "" THEN Seeded(manager, employee)
    ELSE << Msg("manager", manager.name, "Conversation seed unavailable due to data error.") >>

\* a comment request that answers 404 when the key holds no conversation
add_comment_requiring_conversation(m, e, text) ==
    LET comment == Strip(text)
        convs == _load_conversations(file)
        key == _conversation_key(m, e)
        conv == Append(convs[key], Msg("teamlead", "Team Lead", Take(comment, 500)))
    IN  /\ IF comment = ""
           THEN /\ file' = file
                /\ result' = [Response("comment", m, e, "EmptyComment", <<>>, Store, file')
                                  EXCEPT !.text = text]
           ELSE IF key \notin DOMAIN convs
           THEN /\ file' = FileAfterLoad(file)
                /\ result' = [Response("comment", m, e, "NotFound", <<>>, convs, file')
                                  EXCEPT !.text = text]
           ELSE /\ Len(conv) <= MaxMsgs
                /\ TeamLeadCount(conv) <= MaxTeamLead
                /\ file' = _save_conversations(Put(convs, key, conv))
                /\ result' = [Response("comment", m, e, "ok", conv, convs, file')
                                  EXCEPT !.text = text]
        /\ UNCHANGED <<managers, employees, client, origin, lock, threads, written>>

\* a comment request that neither trims the text nor rejects a blank one
add_comment_unstripped(m, e, text) ==
    LET convs == _load_conversations(file)
        key == _conversation_key(m, e)
        base == IF key \in DOMAIN convs THEN convs[key] ELSE LazySeed(managers[m], employees[e])
        conv == Append(base, Msg("teamlead", "Team Lead", Take(text, 500)))
    IN  /\ IF key \notin DOMAIN convs /\ ~(Truthy(managers[m]) /\ Truthy(employees[e]))
           THEN /\ file' = FileAfterLoad(file)
                /\ result' = [Response("comment", m, e, "InvalidReference", <<>>, convs, file')
                                  EXCEPT !.text = text]
           ELSE /\ Len(conv) <= MaxMsgs
                /\ TeamLeadCount(conv) <= MaxTeamLead
                /\ file' = _save_conversations(Put(convs, key, conv))
                /\ result' = [Response("comment", m, e, "ok", conv, convs, file')
                                  EXCEPT !.text = text]
        /\ UNCHANGED <<managers, employees, client, origin, lock, threads, written>>

\* a comment request that puts the comment in the place of a comment still pending
add_comment_over_pending(m, e, text) ==
    LET comment == Strip(text)
        convs == _load_conversations(file)
        key == _conversation_key(m, e)
        stored == IF key \in DOMAIN convs THEN convs[key] ELSE LazySeed(managers[m], employees[e])
        base == IF PendingComment(stored) # None THEN SubSeq(stored, 1, Len(stored) - 1)
                ELSE stored
        conv == Append(base, Msg("teamlead", "Team Lead", Take(comment, 500)))
    IN  /\ IF comment = ""
           THEN /\ file' = file
                /\ result' = [Response("comment", m, e, "EmptyComment", <<>>, Store, file')
                                  EXCEPT !.text = text]
           ELSE IF key \notin DOMAIN convs /\ ~(Truthy(managers[m]) /\ Truthy(employees[e]))
           THEN /\ file' = FileAfterLoad(file)
                /\ result' = [Response("comment", m, e, "InvalidReference", <<>>, convs, file')
                                  EXCEPT !.text = text]
           ELSE /\ Len(conv) <= MaxMsgs
                /\ TeamLeadCount(conv) <= MaxTeamLead
                /\ file' = _save_conversations(Put(convs, key, conv))
                /\ result' = [Response("comment", m, e, "ok", conv, convs, file')
                                  EXCEPT !.text = text]
        /\ UNCHANGED <<managers, employees, client, origin, lock, threads, written>>

\* POST /api/conversation/comment
add_comment(m, e, text) ==
    LET comment == Strip(text)
        convs == _load_conversations(file)
        key == _conversation_key(m, e)
        manager == managers[m]
        employee == employees[e]
        base == IF key \in DOMAIN convs THEN convs[key] ELSE LazySeed(manager, employee)
        conv == Append(base, Msg("teamlead", "Team Lead", Take(comment, 500)))
    IN  /\ IF comment = ""
           THEN /\ file' = file
                /\ result' = [Response("comment", m, e, "EmptyComment", <<>>, Store, file')
                                  EXCEPT !.text = text]
           ELSE IF key \notin DOMAIN convs /\ ~(Truthy(manager) /\ Truthy(employee))
           THEN /\ file' = FileAfterLoad(file)
                /\ result' = [Response("comment", m, e, "InvalidReference", <<>>, convs, file')
                                  EXCEPT !.text = text]
           ELSE /\ Len(conv) <= MaxMsgs
                /\ TeamLeadCount(conv) <= MaxTeamLead
                /\ file' = _save_conversations(Put(convs, key, conv))
                /\ result' = [Response("comment", m, e, "ok", conv, convs, file')
                                  EXCEPT !.text = text]
        /\ UNCHANGED <<managers, employees, client, origin, lock, threads, written>>

\* POST /api/set-default-model succeeding: the global client is bound
set_default_model ==
    /\ ~client
    /\ client' = TRUE
    /\ result' = Response("set_default_model", 0, 0, "ok", <<>>, Store, file)
    /\ UNCHANGED <<managers, employees, file, origin, lock, threads, written>>

GetConversation == \E m \in ManagerIds, e \in EmployeeIds : get_conversation(m, e)

\* the generator is called only when the client is bound
ContinueConversation ==
    \E m \in ManagerIds, e \in EmployeeIds, c \in (IF client THEN Completions ELSE {NoCompletion}) :
        continue_conversation(m, e, c)

StartNewConversation == \E m \in ManagerIds, e \in EmployeeIds : new_conversation(m, e)

AddComment == \E m \in ManagerIds, e \in EmployeeIds, t \in Comments : add_comment(m, e, t)

SetDefaultModel == set_default_model

Next ==
    \/ GetConversation
    \/ ContinueConversation
    \/ StartNewConversation
    \/ AddComment
    \/ SetDefaultModel

Spec == Init /\ [][Next]_vars
(***************************************************************************)
(* The store under concurrent requests: each thread serves one request,    *)
(* GetConversation or StartNewConversation for manager 1 and an employee,  *)
(* as the steps of _load_conversations and _save_conversations             *)
(***************************************************************************)

\* the file after open(CONVERSATION_FILE, 'w'): it exists, truncated, and holds
\* no complete document until json.dump has written it and the file is closed
Truncated == [state |-> "partial", data |-> EmptyMap]

\* the positions inside "with _conv_lock:"
Writing == {"open", "dump", "release"}

At(t, pc) == threads[t].pc = pc

Goto(t, pc) == [threads EXCEPT ![t].pc = pc]

StoreTables == <<managers, employees, client, origin, result>>

\* a request comes in and is given to thread t
Begin(t) ==
    /\ At(t, "idle")
    /\ \E op \in {"get", "new"}, e \in EmployeeIds :
           threads' = [threads EXCEPT ![t].pc = "exists", ![t].op = op, ![t].e = e]
    /\ UNCHANGED <<file, lock, written, StoreTables>>

\* line 33: os.path.exists
LoadExists(t) ==
    /\ At(t, "exists")
    /\ threads' = Goto(t, IF file.state = "missing" THEN "create" ELSE "read")
    /\ UNCHANGED <<file, lock, written, StoreTables>>

\* line 35: open(..., 'w') of the missing file, outside the lock
LoadCreate(t) ==
    /\ At(t, "create")
    /\ file' = Truncated
    /\ threads' = Goto(t, "create_dump")
    /\ UNCHANGED <<lock, written, StoreTables>>

\* line 36: json.dump({}, f) and the close
LoadCreateDump(t) ==
    /\ At(t, "create_dump")
    /\ file' = Written(EmptyMap)
    /\ written' = written \cup {EmptyMap}
    /\ threads' = Goto(t, "read")
    /\ UNCHANGED <<lock, StoreTables>>

\* lines 37-41: read the file as it is now and parse it, {} when that fails
LoadRead(t) ==
    /\ At(t, "read")
    /\ threads' = [threads EXCEPT ![t].pc = "decide", ![t].got = _load_conversations(file)]
    /\ UNCHANGED <<file, lock, written, StoreTables>>

\* the handler between load and save: get_conversation returns a conversation
\* it finds, and seeds one it does not find; new_conversation always seeds
Decide(t) ==
    /\ At(t, "decide")
    /\ LET key == _conversation_key(1, threads[t].e)
           convs == threads[t].got
       IN  IF threads[t].op = "get" /\ key \in DOMAIN convs
           THEN threads' = Goto(t, "done")
           ELSE threads' = [threads EXCEPT
                               ![t].pc = "acquire",
                               ![t].data = Put(convs, key,
                                               Seeded(managers[1], employees[threads[t].e]))]
    /\ UNCHANGED <<file, lock, written, StoreTables>>

\* line 44: "with _conv_lock:" entered once the lock is free
Acquire(t) ==
    /\ At(t, "acquire")
    /\ lock = 0
    /\ lock' = t
    /\ threads' = [threads EXCEPT
                      ![t].pc = "open",
                      ![t].turn = 1 + Cardinality({u \in Threads : threads[u].turn > 0})]
    /\ UNCHANGED <<file, written, StoreTables>>

\* line 45: open(..., 'w') truncates the file
SaveOpen(t) ==
    /\ At(t, "open")
    /\ file' = Truncated
    /\ threads' = Goto(t, "dump")
    /\ UNCHANGED <<lock, written, StoreTables>>

\* line 46: json.dump(data, f) and the close put the whole mapping in the file
SaveDump(t) ==
    /\ At(t, "dump")
    /\ file' = Written(threads[t].data)
    /\ written' = written \cup {threads[t].data}
    /\ threads' = Goto(t, "release")
    /\ UNCHANGED <<lock, StoreTables>>

\* line 46 raising (the disk is full, the write is refused): the file stays as it is
SaveDumpFails(t) ==
    /\ At(t, "dump")
    /\ threads' = [threads EXCEPT ![t].pc = "release", ![t].failed = TRUE]
    /\ UNCHANGED <<file, lock, written, StoreTables>>

\* a release that a failed write skips: acquire and release written out by hand,
\* the release after the write instead of in a finally clause
ReleaseUnlessFailed(t) ==
    /\ At(t, "release")
    /\ lock' = IF threads[t].failed THEN lock ELSE 0
    /\ threads' = Goto(t, "done")
    /\ UNCHANGED <<file, written, StoreTables>>

\* line 44: leaving "with _conv_lock:", normally or by an exception
Release(t) ==
    /\ At(t, "release")
    /\ lock' = 0
    /\ threads' = Goto(t, "done")
    /\ UNCHANGED <<file, written, StoreTables>>

\* the tables of the concurrent store: both employees resolve
InitStore ==
    /\ managers = [i \in ManagerIds |-> PMDana]
    /\ employees = [i \in EmployeeIds |-> IF i = 1 THEN EmpAnn ELSE EmpBob]
    /\ origin \in {"empty", "stale"}
    /\ file = FileAt(origin)
    /\ client = FALSE
    /\ result = Response("none", 0, 0, "ok", <<>>, _load_conversations(file), file)
    /\ lock = 0
    /\ threads = [t \in Threads |-> Idle]
    /\ written = {_load_conversations(file)}

NextStore ==
    \E t \in Threads :
        \/ Begin(t)
        \/ LoadExists(t)
        \/ LoadCreate(t)
        \/ LoadCreateDump(t)
        \/ LoadRead(t)
        \/ Decide(t)
        \/ Acquire(t)
        \/ SaveOpen(t)
        \/ SaveDump(t)
        \/ SaveDumpFails(t)
        \/ Release(t)

SpecStore == InitStore /\ [][NextStore]_vars
(***************************************************************************)
(* The calculator and the seeder on their own, over drawn skill lists      *)
(***************************************************************************)

\* how a drawn pair of lists is made less regular: the required list names
\* its first skill twice, or the employee holds a skill nobody requires
Variants == {"plain", "dup", "extra"}

\* a required list of n distinct skills
Required(n, v) ==
    [i \in 1..n |-> SkillName(i)] \o (IF v = "dup" /\ n > 0 THEN <<SkillName(1)>> ELSE <<>>)

\* the skills of an employee who holds the first k of them
Held(k, v) == [i \in 1..k |-> SkillName(i)] \o (IF v = "extra" THEN <<"Python">> ELSE <<>>)

InitCalc ==
    /\ origin = "empty"
    /\ file = FileAt(origin)
    /\ client = FALSE
    /\ result = [op |-> "none"]
    /\ lock = 0
    /\ threads = [t \in Threads |-> Idle]
    /\ written = {_load_conversations(file)}

InitAlign ==
    /\ \E n \in 0..MaxRequired, v \in Variants : \E k \in 0..n :
           /\ managers = [i \in ManagerIds |-> [PMDana EXCEPT !.required_skills = Required(n, v)]]
           /\ employees = [i \in EmployeeIds |-> [EmpAnn EXCEPT !.skills = Held(k, v)]]
    /\ InitCalc

\* _compute_alignment is called on the two lists
ComputeAlignment ==
    /\ result.op = "none"
    /\ result' = [op |-> "_compute_alignment",
                  value |-> _compute_alignment(managers[1].required_skills, employees[1].skills)]
    /\ UNCHANGED <<managers, employees, file, client, origin, lock, threads, written>>

SpecAlign == InitAlign /\ [][ComputeAlignment]_vars

\* longest required list the seeder is run on (the seed names the first 4)
MaxSeedSkills == 5

InitSeed ==
    /\ \E n \in 0..MaxSeedSkills, v \in Variants, mp \in ManagerProfiles,
          ep \in {EmpAnn, EmpBob, EmpLong} : \E k \in 0..n :
           /\ managers = [i \in ManagerIds |->
                              [mp EXCEPT !.required_skills = Required(n, v)]]
           /\ employees = [i \in EmployeeIds |-> [ep EXCEPT !.skills = Held(k, v)]]
    /\ InitCalc

\* _seed_conversation is called on the two records, as the handlers call it
SeedConversation ==
    /\ result.op = "none"
    /\ result' = [op |-> "_seed_conversation",
                  conv |-> SeedOrFallback(managers[1], employees[1])]
    /\ UNCHANGED <<managers, employees, file, client, origin, lock, threads, written>>

SpecSeed == InitSeed /\ [][SeedConversation]_vars

(***************************************************************************)
(* The migration and the reseed detector on their own, over stored lists   *)
(***************************************************************************)

\* longest stored message list the two functions are run on
MaxStored == 2

\* messages a conversation file of any deployment may hold; the intro, which
\* names the employee or not, is drawn for the first message of a list
StoredMessages ==
    {Msg(who[1], who[2], text) :
        who \in {<<"manager", "Dana Cruz">>, <<"manager", "Tech Lead">>,
                 <<"manager", "tech lead sam">>, <<"manager", None>>,
                 <<"lead", "Tech Lead">>, <<"lead", None>>,
                 <<"techlead", "Dana Cruz">>, <<"hr", "HR Representative">>},
        text \in {"Reviewing Ann Lee.", "x"}}

InitLegacy ==
    /\ \E pair \in {<<PMDana, EmpAnn>>, <<PMDana, EmpNoName>>, <<NoRecord, EmpAnn>>} :
           /\ managers = [i \in ManagerIds |-> pair[1]]
           /\ employees = [i \in EmployeeIds |-> pair[2]]
    /\ \E messages \in {<<>>} \cup
              {<<first>> \o rest :
                  first \in StoredMessages,
                  rest \in UNION {[1..n -> {m \in StoredMessages : m.text = "x"}] :
                                     n \in 0..(MaxStored - 1)}} :
           file = Written(Put(EmptyMap, _conversation_key(1, 1), messages))
    /\ origin = "stale"
    /\ client = FALSE
    /\ result = [op |-> "none", migrated |-> FALSE]
    /\ lock = 0
    /\ threads = [t \in Threads |-> Idle]
    /\ written = {_load_conversations(file)}

\* _migrate_legacy_roles run in place on the stored list; "again" is the list
\* a second run over the outcome leaves
MigrateLegacyRoles ==
    LET key == _conversation_key(1, 1)
        before == Store[key]
        after == _migrate_legacy_roles(before)
    IN  /\ file' = Written(Put(Store, key, after))
        /\ result' = [op |-> "_migrate_legacy_roles", before |-> before, after |-> after,
                      again |-> _migrate_legacy_roles(after), migrated |-> TRUE]
        /\ UNCHANGED <<managers, employees, client, origin, lock, threads, written>>

\* _conversation_needs_reseed called on the two records and the stored list
ConversationNeedsReseed ==
    /\ result' = [op |-> "_conversation_needs_reseed",
                  messages |-> Store[_conversation_key(1, 1)],
                  value |-> _conversation_needs_reseed(managers[1], employees[1],
                                                       Store[_conversation_key(1, 1)]),
                  migrated |-> result.migrated]
    /\ UNCHANGED <<managers, employees, file, client, origin, lock, threads, written>>

SpecLegacy == InitLegacy /\ [][MigrateLegacyRoles \/ ConversationNeedsReseed]_vars

(***************************************************************************)
(* The heuristic responder on its own, over drawn records and comments     *)
(***************************************************************************)

\* the stored conversation ends with the team-lead comment to answer; the
\* employee row is drawn with or without a name, with summaries that state a
\* hobby count or none, and with or without the skill the manager still misses
InitAnswer ==
    /\ \E mp \in ManagerProfiles,
          name \in {"Ann Lee", "", None},
          summary \in {"Solid contributor with exactly 3 hobbies", "Has 0 hobbies",
                       "Keeps 100 hobbies", "12 different activities", "Data scientist"},
          skills \in {<<"Python", "SQL">>, <<"Python", "SQL", "Kafka">>} :
           /\ managers = [i \in ManagerIds |-> mp]
           /\ employees = [i \in EmployeeIds |->
                               [EmpAnn EXCEPT !.name = name, !.summary = summary,
                                              !.skills = skills]]
    /\ \E comment \in {"Any hobbies?", "HOBBIES outside work?", "Is velocity sustainable?"} :
           file = Written(Put(EmptyMap, _conversation_key(1, 1),
                              <<Msg("teamlead", "Team Lead", comment)>>))
    /\ origin = "stale"
    /\ client = FALSE
    /\ result = [op |-> "none"]
    /\ lock = 0
    /\ threads = [t \in Threads |-> Idle]
    /\ written = {_load_conversations(file)}

\* _enhanced_answer_teamlead called as line 611 calls it: err is the exception
\* it raises ("" when none), text what it returns
EnhancedAnswerTeamlead ==
    LET comment == PendingComment(Store[_conversation_key(1, 1)])
        overlap_info == OverlapInfo(managers[1].required_skills, employees[1].skills)
    IN  /\ result.op = "none"
        /\ result' = [op |-> "_enhanced_answer_teamlead", comment |-> comment,
                      err |-> AnswerError(employees[1]),
                      text |-> IF AnswerError(employees[1]) # "" THEN ""
                               ELSE _enhanced_answer_teamlead(comment, employees[1],
                                                              managers[1], overlap_info)]
        /\ UNCHANGED <<managers, employees, file, client, origin, lock, threads, written>>

SpecAnswer == InitAnswer /\ [][EnhancedAnswerTeamlead]_vars
(***************************************************************************)
(* Properties of the requests served one at a time (Spec)                  *)
(***************************************************************************)

\* the records the last request named
LastManager == managers[result.m]

LastEmployee == employees[result.e]

LastKey == _conversation_key(result.m, result.e)

IsRequest == result.op \in {"get", "continue", "new", "comment"}

\* C1: from an empty store, after any sequence of the four requests, every
\* message of every persisted conversation has a text of at most 500 characters
C1_MessageBound ==
    origin = "empty" =>
        \A k \in DOMAIN Store : \A i \in 1..Len(Store[k]) : Len(Store[k][i].text) <= 500

\* C2: in every persisted conversation a teamlead message that is not the last
\* message is followed by one manager message and then one hr message, so two
\* teamlead messages are never adjacent
C2_TeamLeadAnswered ==
    \A k \in DOMAIN Store : \A i \in 1..Len(Store[k]) :
        (Store[k][i].role = "teamlead" /\ i < Len(Store[k])) =>
            /\ i + 2 <= Len(Store[k])
            /\ Store[k][i + 1].role = "manager"
            /\ Store[k][i + 2].role = "hr"

\* the two entries of TwoEntries after role normalization, speaker forcing and
\* text capping, for the manager pm answering the comment pending
CleanedEntries(pm, pending) == Discuss(JsonLoads(TwoEntries), pm, pending).msgs

\* C3: with a generator configured whose answer holds a JSON array of exactly 2
\* entries with non-empty text, ContinueConversation appends those 2 entries,
\* cleaned, and not the fallback messages
C3_GeneratedEntriesAppended ==
    ( /\ result.op = "continue"
      /\ result.status # "InvalidReference"
      /\ result.client
      /\ result.completion = WrappedEntries ) =>
        /\ result.status = "ok"
        /\ result.usedLLM
        /\ result.conv = result.base \o CleanedEntries(LastManager, result.pending)

\* C4: whenever the generator is absent, raises or returns anything but 2
\* well-shaped entries, ContinueConversation with resolvable ids completes and
\* appends exactly the 2 fallback messages
C4_GeneratorFailureRecovered ==
    ( /\ result.op = "continue"
      /\ Truthy(LastManager) /\ Truthy(LastEmployee)
      /\ (~result.client \/ result.completion # WrappedEntries) ) =>
        /\ result.status = "ok"
        /\ result.conv = result.base \o Fallback(LastManager, LastEmployee, result.pending).add
        /\ Store[LastKey] = result.conv

\* C5: a request whose manager id or employee id does not resolve reports
\* InvalidReference and leaves the persisted mapping unchanged, also when the
\* key is already in the store (an empty comment is rejected as such first)
C5_InvalidReference ==
    ( /\ IsRequest
      /\ result.status # "EmptyComment"
      /\ (~Truthy(LastManager) \/ ~Truthy(LastEmployee)) ) =>
        /\ result.status = "InvalidReference"
        /\ ~result.changed

\* C8: a ContinueConversation that finds the stored conversation still
\* mismatched after migration stores and returns Seed(manager, employee), the
\* 4-message seed or the 1-message fallback, followed by exactly 2 messages
C8_ReseedDiscardsOld ==
    ( /\ result.op = "continue"
      /\ result.status = "ok"
      /\ result.reseed # "none" ) =>
        /\ result.base = SeedOrFallback(LastManager, LastEmployee)
        /\ Len(result.conv) = Len(result.base) + 2
        /\ Store[LastKey] = result.conv

\* C9: GetConversation on a key already in the store returns the stored
\* messages and never changes the persisted mapping: no save, no reseed, no
\* migration, even when the stored conversation needs a reseed
C9_GetLeavesStore ==
    (result.op = "get" /\ result.had) =>
        /\ result.status = "ok"
        /\ ~result.changed
        /\ result.conv = Store[LastKey]

\* a GetConversation has just returned a stored conversation that needs a
\* reseed and still holds a legacy message
C9_GetOnStaleKey ==
    /\ result.op = "get" /\ result.had
    /\ _conversation_needs_reseed(LastManager, LastEmployee, result.conv)
    /\ \E i \in 1..Len(result.conv) : IsLegacy(result.conv[i])

\* the conversation the last request seeded, as <<conversation>>, <<>> if it seeded none
FreshSeed ==
    IF result.status = "ok" /\ (result.op = "new" \/ (result.op = "get" /\ ~result.had))
    THEN <<result.conv>>
    ELSE IF result.op = "continue" /\ ~result.had /\ result.status # "InvalidReference"
    THEN <<result.base>>
    ELSE IF result.op = "comment" /\ ~result.had /\ result.status = "ok"
    THEN <<SubSeq(result.conv, 1, Len(result.conv) - 1)>>
    ELSE <<>>

\* C10: the conversation a request seeds for a manager and an employee does not
\* satisfy NeedsReseed for that pair
C10_FreshSeedNeedsNoReseed ==
    FreshSeed # <<>> => ~_conversation_needs_reseed(LastManager, LastEmployee, FreshSeed[1])

\* C11: wherever a request seeds (GetConversation, ContinueConversation on an
\* absent key or on a stored conversation that needs a reseed,
\* StartNewConversation, AddComment on an absent key), the seeded conversation
\* is the 4-message seed or the single manager message "Conversation seed
\* unavailable due to data error: <ErrorKind>."
C11_SeedingIsTotal ==
    /\ FreshSeed # <<>> => FreshSeed[1] = SeedOrFallback(LastManager, LastEmployee)
    /\ (result.op = "continue" /\ result.reseed # "none") =>
           result.base = SeedOrFallback(LastManager, LastEmployee)

\* the manager reply of the last ContinueConversation
ManagerReply == result.conv[Len(result.base) + 1]

\* C12: with no generator configured and resolvable ids, ContinueConversation
\* appends exactly 2 messages, a manager message and then an hr message (a
\* 4-message seed with one comment grows to 7), and the manager reply to a
\* pending comment that is no direct project question contains the first 60
\* characters of the comment and the alignment percentage
C12_ContinueAppendsTwo ==
    (result.op = "continue" /\ ~result.client /\ Truthy(LastManager) /\ Truthy(LastEmployee)) =>
        /\ result.status = "ok"
        /\ Len(result.conv) = Len(result.base) + 2
        /\ SubSeq(result.conv, 1, Len(result.base)) = result.base
        /\ ManagerReply.role = "manager"
        /\ result.conv[Len(result.base) + 2].role = "hr"
        /\ LastKey \in DOMAIN Store /\ Store[LastKey] = result.conv
        /\ (HasPending(result.pending) /\ ~_is_direct_project_question(result.pending)) =>
               /\ Contains(ManagerReply.text, Take(result.pending, 60))
               /\ Contains(ManagerReply.text,
                           IntStr(_compute_alignment(LastManager.required_skills,
                                                     LastEmployee.skills)) \o "%")

\* the conversation c without its last message
ButLast(c) == SubSeq(c, 1, Len(c) - 1)

\* c is what a seeding of the pair leaves: the 4-message seed, or one manager
\* message reporting that the seed is unavailable
IsSeeded(c, manager, employee) ==
    IF SeedError(manager, employee) = "" THEN c = _seed_conversation(manager, employee)
    ELSE /\ Len(c) = 1
         /\ c[1].role = "manager" /\ c[1].speaker = manager.name
         /\ StartsWith(c[1].text, "Conversation seed unavailable due to data error")

\* C13: AddComment with resolvable ids and a text that is not blank succeeds
\* whether or not the key holds a conversation; the stored and returned
\* conversation is the previous one, or a freshly seeded one when the key was
\* absent, followed by one message of role teamlead, speaker "Team Lead" and
\* the trimmed text cut to 500 characters
C13_CommentAppended ==
    ( /\ result.op = "comment"
      /\ Truthy(LastManager) /\ Truthy(LastEmployee)
      /\ Strip(result.text) # "" ) =>
        /\ result.status = "ok"
        /\ result.conv # <<>>
        /\ result.conv[Len(result.conv)]
               = Msg("teamlead", "Team Lead", Take(Strip(result.text), 500))
        /\ IF result.had THEN ButLast(result.conv) = result.prev[1]
           ELSE IsSeeded(ButLast(result.conv), LastManager, LastEmployee)
        /\ LastKey \in DOMAIN Store /\ Store[LastKey] = result.conv

\* a comment longer than 500 characters, sent with spaces around it, was
\* appended to the conversation that the request itself had to seed
C13_LongCommentOnAbsentKey ==
    /\ result.op = "comment" /\ result.status = "ok" /\ ~result.had
    /\ Len(Strip(result.text)) > 500 /\ Strip(result.text) # result.text
    /\ Len(result.conv) = 5

\* C14: AddComment with an empty or blank text is rejected with EmptyComment
\* and leaves the file as it is: no message appended, no conversation seeded,
\* whether or not the key exists
C14_EmptyCommentRejected ==
    [][ (result'.op = "comment" /\ Strip(result'.text) = "") =>
            /\ result'.status = "EmptyComment"
            /\ file' = file ]_vars

\* a blank comment was rejected for a key that holds a conversation
C14_BlankCommentOnStoredKey ==
    /\ result.op = "comment" /\ result.status = "EmptyComment"
    /\ result.text # "" /\ Strip(result.text) = ""
    /\ result.had /\ Store[LastKey] = result.prev[1]

\* C15: after StartNewConversation with resolvable ids the key holds a fresh
\* Seed(manager, employee), whatever it held before, and every other key
\* holds what it held before
C15_NewConversationReseeds ==
    (result.op = "new" /\ Truthy(LastManager) /\ Truthy(LastEmployee)) =>
        /\ result.status = "ok"
        /\ result.conv = SeedOrFallback(LastManager, LastEmployee)
        /\ LastKey \in DOMAIN Store /\ Store[LastKey] = result.conv
        /\ result.others

\* a StartNewConversation replaced a conversation that held continuation
\* replies and ended with a pending comment, in a store that holds another key
C15_NewOverPendingComment ==
    /\ result.op = "new" /\ result.status = "ok" /\ result.had
    /\ PendingComment(result.prev[1]) # None
    /\ Len(result.prev[1]) > Len(result.conv) + 2
    /\ DOMAIN Store # {LastKey}

\* C16: GetConversation for an absent key with resolvable ids seeds the
\* conversation, stores it under the key and returns it as a non-empty list;
\* a GetConversation for a key that is present returns the stored messages, so
\* a second GetConversation returns what the first one did
C16_GetSeedsAndPersists ==
    /\ (result.op = "get" /\ ~result.had /\ Truthy(LastManager) /\ Truthy(LastEmployee)) =>
           /\ result.status = "ok"
           /\ result.conv # <<>>
           /\ LastKey \in DOMAIN Store /\ Store[LastKey] = result.conv
    /\ (result.op = "get" /\ result.had) =>
           /\ result.conv = result.prev[1]
           /\ LastKey \in DOMAIN Store /\ Store[LastKey] = result.prev[1]

\* a GetConversation found, in a store that began empty, the 4-message seed
\* an earlier request stored
C16_SecondGet ==
    /\ result.op = "get" /\ result.had /\ origin = "empty"
    /\ result.conv = SeedOrFallback(LastManager, LastEmployee)
    /\ Len(result.conv) = 4

Loads(r) ==
    \/ r.op \in {"get", "continue"}
    \/ r.op = "comment" /\ r.status # "EmptyComment"
    \/ r.op = "new" /\ r.status # "InvalidReference"

\* C20: a request that loads while the file is missing or cannot be parsed
\* goes on with an empty mapping: it finds no key, what it saves holds its own
\* key only, and a file that was missing exists afterwards, holding a mapping
C20_LoadNeverRaises ==
    [][ (file.state # "ok" /\ Loads(result')) =>
            /\ ~result'.had
            /\ DOMAIN _load_conversations(file')
                   \subseteq {_conversation_key(result'.m, result'.e)}
            /\ file.state = "missing" => file'.state = "ok" ]_vars

\* a GetConversation seeded a conversation over a file that could not be parsed
C20_GetOverUnparsableFile ==
    /\ origin = "corrupt"
    /\ result.op = "get" /\ result.status = "ok" /\ ~result.had
    /\ DOMAIN Store = {LastKey}

\* C23: over a file that could not be parsed the store reads as empty, and once
\* a request has saved, the persisted mapping holds exactly the key that request
\* touched, with a conversation seeded from the current records and nothing of
\* the old content
C23_UnparsableStoreStartsOver ==
    origin = "corrupt" =>
        /\ file.state # "ok" => Store = EmptyMap
        /\ (IsRequest /\ result.changed) =>
               /\ file.state = "ok"
               /\ DOMAIN file.data = {LastKey}
               /\ file.data[LastKey] # <<>>
               /\ file.data[LastKey][1] = Seeded(LastManager, LastEmployee)[1]

\* the first request over the unparsable file was an AddComment, and it saved
C23_CommentOverUnparsableFile ==
    /\ origin = "corrupt"
    /\ result.op = "comment" /\ result.status = "ok" /\ ~result.had /\ result.changed
    /\ DOMAIN file.data = {LastKey}

\* the text reports alignment, overlap or gaps
ReportsFit(text) ==
    \E w \in {"alignment", "overlap", "gaps"} : Contains(Lower(text), w)

\* C24: with no generator and both records found, a ContinueConversation over a
\* pending direct project question appends a manager message naming the active
\* project and an hr message, neither reporting alignment, overlap or gaps; over
\* any other pending comment the manager reply reports the alignment percentage
C24_DirectQuestionAnswered ==
    (/\ result.op = "continue" /\ ~result.client /\ HasPending(result.pending)
     /\ Truthy(LastManager) /\ Truthy(LastEmployee)) =>
        /\ result.status = "ok"
        /\ Len(result.conv) = Len(result.base) + 2
        /\ ManagerReply.role = "manager"
        /\ result.conv[Len(result.base) + 2].role = "hr"
        /\ IF _is_direct_project_question(result.pending)
           THEN /\ Contains(ManagerReply.text, LastManager.active_project)
                /\ ~ReportsFit(ManagerReply.text)
                /\ ~ReportsFit(result.conv[Len(result.base) + 2].text)
           ELSE Contains(ManagerReply.text,
                         "alignment "
                             \o IntStr(_compute_alignment(LastManager.required_skills,
                                                          LastEmployee.skills)) \o "%")

(***************************************************************************)
(* Properties of the store under concurrent requests (SpecStore)           *)
(***************************************************************************)

\* the positions after _load_conversations has returned
AfterLoad == {"decide", "acquire", "open", "dump", "release", "done"}

\* C6: a Load running beside a Save returns a mapping the file has held
\* completely, the one before the Save or the one the Save writes, never what
\* a truncated or partly written file yields
C6_LoadSeesCompleteMapping ==
    \A t \in Threads : threads[t].pc \in AfterLoad => threads[t].got \in written

\* C7: at most one thread is inside the writing section of Save, the lock is
\* held exactly by the thread inside it, and it is free whenever no thread is
\* inside, also after a write that failed
C7_MutualExclusion ==
    /\ Cardinality({t \in Threads : threads[t].pc \in Writing}) <= 1
    /\ \A t \in Threads : threads[t].pc \in Writing <=> lock = t
    /\ (\A t \in Threads : threads[t].pc \notin Writing) => lock = 0

\* a Save failed and released the lock, and a later Save holds the lock
C7_SaveAfterFailedSave ==
    \E t, u \in Threads :
        /\ threads[t].failed /\ threads[t].pc = "done"
        /\ threads[u].turn > threads[t].turn
        /\ threads[u].pc \in Writing /\ lock = u
(***************************************************************************)
(* Properties of the calculator and the seeder (SpecAlign, SpecSeed)       *)
(***************************************************************************)

\* the distinct skills the manager requires / the employee holds
RequiredSet == Range(managers[1].required_skills)

HeldSet == Range(employees[1].skills)

\* C19: the alignment percentage is 0 for an empty required list, otherwise
\* floor(100 * |required & held| / |required|) over the sets of distinct
\* skills, and always an integer from 0 to 100
C19_AlignmentIsFloor ==
    result.op = "_compute_alignment" =>
        /\ result.value \in 0..100
        /\ result.value = IF RequiredSet = {} THEN 0
                          ELSE (100 * Cardinality(RequiredSet \cap HeldSet))
                                   \div Cardinality(RequiredSet)

\* C17: for well-formed records the seed is 4 messages with the roles manager,
\* manager, hr, manager; the first text contains "Reviewing <employee name>",
\* the second "Alignment <p>%" with p the alignment percentage of the two
\* skill lists, which is 100 when every required skill is held
C17_SeedShape ==
    (result.op = "_seed_conversation" /\ SeedError(managers[1], employees[1]) = "") =>
        /\ Len(result.conv) = 4
        /\ [i \in 1..4 |-> result.conv[i].role] = <<"manager", "manager", "hr", "manager">>
        /\ Contains(result.conv[1].text, "Reviewing " \o employees[1].name)
        /\ Contains(result.conv[2].text,
                    "Alignment "
                        \o IntStr(_compute_alignment(managers[1].required_skills,
                                                     employees[1].skills))
                        \o "%")
        /\ (RequiredSet # {} /\ RequiredSet \subseteq HeldSet) =>
               Contains(result.conv[2].text, "Alignment 100%")

\* a seed was made for a manager requiring 5 skills, one named twice, and an
\* employee without experience_years and metrics who holds them all
C17_SeedOfFullMatch ==
    /\ result.op = "_seed_conversation"
    /\ Len(managers[1].required_skills) = 6
    /\ RequiredSet \subseteq HeldSet
    /\ employees[1].experience_years = <<>>
    /\ Len(result.conv) = 4

\* the step is a ContinueConversation that returned a conversation
ContinueCompleted ==
    result' # result /\ result'.op = "continue" /\ result'.status = "ok"

\* C28: right after a completed ContinueConversation the stored conversation
\* ends with a manager or hr message, so no comment is pending; a comment that
\* was pending was the last message before the step; and a ContinueConversation
\* that follows a completed one on the same key with no request in between
\* finds no pending comment
C28_CommentAnsweredOnce ==
    [][ ContinueCompleted =>
            /\ result'.conv[Len(result'.conv)].role \in {"manager", "hr"}
            /\ _conversation_key(result'.m, result'.e) \in DOMAIN _load_conversations(file')
            /\ _load_conversations(file')[_conversation_key(result'.m, result'.e)]
                   = result'.conv
            /\ PendingComment(result'.conv) = None
            /\ HasPending(result'.pending) =>
                   /\ result'.base[Len(result'.base)].role = "teamlead"
                   /\ result'.base[Len(result'.base)].text = result'.pending
            /\ (/\ result.op = "continue" /\ result.status = "ok"
                /\ result.m = result'.m /\ result.e = result'.e) =>
                   ~HasPending(result'.pending) ]_vars

\* a second ContinueConversation completed right after one that answered a
\* comment, and found nothing pending
C28_SecondContinueAfterAnswer ==
    /\ result.op = "continue" /\ result.status = "ok"
    /\ ~HasPending(result.pending)
    /\ Len(result.base) >= 3
    /\ result.base[Len(result.base) - 2].role = "teamlead"
    /\ result.base[Len(result.base)].role = "hr"

\* C29: an AddComment, and a ContinueConversation that does not reseed, only
\* append: the messages the key held before are a prefix of what it holds after,
\* in the same order and with the same texts, and every other key holds what it
\* held before
C29_OnlyAppends ==
    (/\ result.op \in {"comment", "continue"} /\ result.status = "ok"
     /\ result.reseed # "done") =>
        /\ result.others
        /\ LastKey \in DOMAIN Store
        /\ result.had =>
               /\ Len(Store[LastKey]) > Len(result.prev[1])
               /\ \A i \in 1..Len(result.prev[1]) :
                      Store[LastKey][i].text = result.prev[1][i].text

\* a ContinueConversation migrated a legacy message of the stored conversation,
\* did not reseed, and appended its two messages; the file holds another key
C29_ContinueOverMigrated ==
    /\ result.op = "continue" /\ result.status = "ok" /\ result.had
    /\ result.reseed = "none"
    /\ \E i \in 1..Len(result.prev[1]) :
           IsLegacy(result.prev[1][i]) /\ Store[LastKey][i].role = "hr"
    /\ Len(Store[LastKey]) = Len(result.prev[1]) + 2
    /\ DOMAIN Store # {LastKey}

\* C30: after a ContinueConversation that returned a conversation, the reseed
\* detector is false for the stored conversation and the current records, so
\* the next ContinueConversation has nothing to reseed
C30_ContinuedNeedsNoReseed ==
    (result.op = "continue" /\ result.status = "ok") =>
        /\ LastKey \in DOMAIN Store
        /\ ~_conversation_needs_reseed(LastManager, LastEmployee, Store[LastKey])

\* thread t has served its request and its save went through
Saved(t) == At(t, "done") /\ threads[t].data # EmptyMap /\ ~threads[t].failed

\* C27: once two requests that each changed a different key have both completed,
\* the persisted mapping holds what both of them stored (checked under SpecStore)
C27_NoLostUpdate ==
    \A t, u \in Threads :
        (Saved(t) /\ Saved(u) /\ threads[t].e # threads[u].e /\ file.state = "ok") =>
            /\ _conversation_key(1, threads[t].e) \in DOMAIN file.data
            /\ file.data[_conversation_key(1, threads[t].e)]
                   = threads[t].data[_conversation_key(1, threads[t].e)]

(***************************************************************************)
(* Claims on the migration and the reseed detector (SpecLegacy)            *)
(***************************************************************************)

IsMigration == result.op = "_migrate_legacy_roles"

\* legacy as the words "role lead/techlead or speaker starting with 'Tech Lead'" read
LegacyAsWritten(m) ==
    \/ StartsWith(IF m.speaker = None THEN "" ELSE m.speaker, "Tech Lead")
    \/ m.role \in {"lead", "techlead"}

SameTexts(a, b) == Len(a) = Len(b) /\ \A i \in 1..Len(a) : a[i].text = b[i].text

\* C21 as stated: a second migration changes nothing, every text is kept, and a
\* message whose role is not lead/techlead and whose speaker does not start with
\* 'Tech Lead' is left as it was
C21_MigrationKeepsNonLegacy ==
    IsMigration =>
        /\ result.again = result.after
        /\ SameTexts(result.before, result.after)
        /\ \A i \in 1..Len(result.before) :
               ~LegacyAsWritten(result.before[i]) => result.after[i] = result.before[i]

\* C21: a second migration changes nothing, every text is kept, and a message
\* whose role is not lead/techlead and whose speaker does not start with
\* 'tech lead' in any letter case is left as it was
C21_MigrationIdempotent ==
    IsMigration =>
        /\ result.again = result.after
        /\ SameTexts(result.before, result.after)
        /\ \A i \in 1..Len(result.before) :
               ~IsLegacy(result.before[i]) => result.after[i] = result.before[i]

\* a migration over a list holding a legacy message and one that is not
C21_MixedListMigrated ==
    /\ IsMigration
    /\ \E i, j \in 1..Len(result.before) :
           /\ IsLegacy(result.before[i]) /\ result.after[i] # result.before[i]
           /\ ~IsLegacy(result.before[j])

IsDetection == result.op = "_conversation_needs_reseed"

NonEmptyInputs == Truthy(managers[1]) /\ Truthy(employees[1]) /\ result.messages # <<>>

\* C22 as stated: on a migrated list and non-empty inputs the detector is true
\* exactly when the first text lacks 'Reviewing <employee name>'
C22_DetectorGoesByIntro ==
    (IsDetection /\ result.migrated /\ NonEmptyInputs) =>
        (result.value <=>
            ~Contains(result.messages[1].text, "Reviewing " \o Fmt(employees[1].name)))

\* C22: on a migrated list, non-empty inputs and an employee that has a name,
\* the detector is true exactly when the first text lacks 'Reviewing <employee
\* name>'; for an employee without a name it is false
C22_DetectorGoesByIntroOfNamed ==
    (IsDetection /\ result.migrated /\ NonEmptyInputs) =>
        IF employees[1].name = None \/ employees[1].name = ""
        THEN ~result.value
        ELSE result.value <=>
                 ~Contains(result.messages[1].text, "Reviewing " \o employees[1].name)

\* the detector run on a migrated list that held a legacy message and whose
\* intro names the employee
C22_MigratedListAccepted ==
    /\ IsDetection /\ result.migrated /\ NonEmptyInputs
    /\ ~result.value
    /\ employees[1].name = "Ann Lee"
    /\ \E i \in 1..Len(result.messages) : result.messages[i].speaker = "HR Representative"
    /\ Contains(result.messages[1].text, "Reviewing Ann Lee")


(***************************************************************************)
(* Claims on the heuristic responder (SpecAnswer)                          *)
(***************************************************************************)

IsAnswer == result.op = "_enhanced_answer_teamlead"

\* C25: the heuristic responder raises nothing and returns non-empty text for
\* every comment and every employee and manager record, an employee without a
\* name or with an empty one included
C25_AnswerNeverRaises ==
    IsAnswer => (result.err = "" /\ result.text # "")

\* the first remaining gap, as the hobby sentence names it
FirstGap ==
    OrStr(Join(Take(OverlapInfo(managers[1].required_skills, employees[1].skills).gaps, 1),
               ", "),
          "no immediate gaps")

\* C26: when the comment mentions 'hobbies' and the fact extractor found a count
\* in the summary, 0 included, the responder returns the hobby sentence citing
\* that count and the first remaining gap; otherwise the generic overlap/gaps
\* sentence
C26_HobbySentenceOnCount ==
    (IsAnswer /\ result.err = "") =>
        IF /\ Contains(Lower(result.comment), "hobbies")
           /\ _extract_employee_facts(employees[1]) # <<>>
        THEN /\ StartsWith(result.text, "Hobby context: ")
             /\ Contains(result.text,
                         " has " \o IntStr(_extract_employee_facts(employees[1])[1])
                             \o " hobbies")
             /\ Contains(result.text, "addressing " \o FirstGap \o ".")
        ELSE StartsWith(result.text, "Fallback: ")

====
